---- MODULE Spec2Model ----
(***************************************************************************)
(* A model of the RAG customer-support summarizer (backend/src).           *)
(*                                                                         *)
(* Sentences are sequences of whitespace-separated words, so that          *)
(* str.split() is the sequence itself and str.lower() acts word by word.   *)
(* Positions are zero-based, as in the source.                             *)
(***************************************************************************)
EXTENDS Integers, Sequences, FiniteSets, TLC

(***************************************************************************)
(* Bounds of the model.                                                    *)
(***************************************************************************)
MaxSelLen == 3
MaxSelTopK == 3
MaxSentences == 4
MaxTopK == 4
MaxMmrLen == 3
MaxMmrTopK == 3
MaxLines == 3
MaxRankLen == 3
MaxRankTopK == 3
MaxFuseLen == 3
MaxFuseTopK == 2

(***************************************************************************)
(* The sentences the inputs are drawn from.  Each has at least             *)
(* MIN_SENTENCE_LENGTH words, so each survives extract_sentences.          *)
(*   C_login  / C_shout : same words, different case (different text)      *)
(*   C_email            : word overlap with C_login exactly 7/14           *)
(*   C_fix              : shares no word with C_login, five keywords       *)
(***************************************************************************)
C_login == <<"The", "customer", "reported", "a", "login", "issue", "after",
             "password", "reset", "yesterday.">>
C_shout == <<"THE", "CUSTOMER", "REPORTED", "A", "LOGIN", "ISSUE", "AFTER",
             "PASSWORD", "RESET", "YESTERDAY.">>
C_email == <<"The", "customer", "reported", "a", "login", "issue", "after",
             "we", "changed", "their", "email?">>
C_fix == <<"We", "resolved", "this", "problem", "quickly:", "fixed", "that",
           "stale", "cookie", "error", "bug.">>
Corpus == {C_login, C_shout, C_email, C_fix}

\* C_stale : word overlap with C_fix 8/14, two keywords
C_stale == <<"We", "resolved", "this", "problem", "quickly:", "cleared", "that",
             "stale", "cookie", "cache", "today.">>

Min(a, b) == IF a <= b THEN a ELSE b

\* str.lower() on one word of the corpus vocabulary
Lower(w) ==
  CASE w = "The" -> "the" [] w = "THE" -> "the" [] w = "We" -> "we"
    [] w = "CUSTOMER" -> "customer" [] w = "REPORTED" -> "reported"
    [] w = "A" -> "a" [] w = "LOGIN" -> "login" [] w = "ISSUE" -> "issue"
    [] w = "AFTER" -> "after" [] w = "PASSWORD" -> "password"
    [] w = "RESET" -> "reset" [] w = "YESTERDAY." -> "yesterday."
    [] w = "Resolution:" -> "resolution:" [] w = "Subject:" -> "subject:"
    [] w = "Cleared" -> "cleared" [] w = "Login" -> "login"
    [] OTHER -> w

\* set(sent.lower().split())
WordSet(sent) == {Lower(sent[i]) : i \in DOMAIN sent}

\* a variant of OverlapAbove that forgets .lower()
OverlapAboveCaseSensitive(sent1, sent2) ==
  LET words1 == {sent1[i] : i \in DOMAIN sent1}
      words2 == {sent2[i] : i \in DOMAIN sent2}
  IN 2 * Cardinality(words1 \cap words2) > Cardinality(words1 \cup words2)

\* _word_overlap(sent1, sent2) > 0.5: intersection / union > 0.5, the
\* division being exact at one half (2 * intersection > union)
OverlapAbove(sent1, sent2) ==
  LET words1 == WordSet(sent1)
      words2 == WordSet(sent2)
      intersection == Cardinality(words1 \cap words2)
      union == Cardinality(words1 \cup words2)
  IN IF words1 = {} \/ words2 = {} THEN FALSE
     ELSE 2 * intersection > union

\* list.sort(key=lambda x: x[1]) on (sentence, position) pairs: stable,
\* ascending by position
RECURSIVE SortByPos(_)
SortByPos(pairs) ==
  IF pairs = <<>> THEN <<>>
  ELSE LET rest == SortByPos(SubSeq(pairs, 1, Len(pairs) - 1))
           x == pairs[Len(pairs)]
           k == Cardinality({i \in DOMAIN rest : rest[i].pos <= x.pos})
       IN SubSeq(rest, 1, k) \o <<x>> \o SubSeq(rest, k + 1, Len(rest))

Sents(pairs) == [i \in DOMAIN pairs |-> pairs[i].sent]

\* is_diverse: no already selected sentence overlaps sent by more than 0.5
IsDiverse(sent, selected) ==
  \A j \in DOMAIN selected : ~OverlapAbove(sent, selected[j].sent)

\* the greedy walk of _select_diverse_sentences: the entries of
\* scored_sentences[i..] accepted after `selected`
RECURSIVE GreedyFrom(_, _, _, _)
GreedyFrom(scored, i, selected, top_k) ==
  IF i > Len(scored) \/ Len(selected) >= top_k THEN selected
  ELSE IF IsDiverse(scored[i].sent, selected)
       THEN GreedyFrom(scored, i + 1, Append(selected, scored[i]), top_k)
       ELSE GreedyFrom(scored, i + 1, selected, top_k)

\* a variant of the walk that stops at the first redundant candidate
RECURSIVE GreedyBreakFrom(_, _, _, _)
GreedyBreakFrom(scored, i, selected, top_k) ==
  IF i > Len(scored) \/ Len(selected) >= top_k THEN selected
  ELSE IF IsDiverse(scored[i].sent, selected)
       THEN GreedyBreakFrom(scored, i + 1, Append(selected, scored[i]), top_k)
       ELSE selected

GreedyBreak(scored, top_k) == GreedyBreakFrom(scored, 1, <<>>, top_k)

Greedy(scored, top_k) == GreedyFrom(scored, 1, <<>>, top_k)

\* sentences_with_pos after the walk: the i-th selected sentence is paired
\* with scored_sentences[i][2], the position of the i-th scored entry
WalkPositions(scored, selected) ==
  [i \in DOMAIN selected |-> [sent |-> selected[i].sent, pos |-> scored[i].idx]]

\* sentences_with_pos of the shortcut branch
OwnPositions(scored) ==
  [i \in DOMAIN scored |-> [sent |-> scored[i].sent, pos |-> scored[i].idx]]

\* a variant of SelectDiverse whose shortcut branch returns the candidates
\* as they come (score order)
SelectDiverseUnsortedShortcut(scored, top_k) ==
  IF Len(scored) <= top_k
  THEN [i \in DOMAIN scored |-> scored[i].sent]
  ELSE Sents(SortByPos(WalkPositions(scored, Greedy(scored, top_k))))

\* ExtractivePipeline._select_diverse_sentences
SelectDiverse(scored, top_k) ==
  IF Len(scored) <= top_k
  THEN Sents(SortByPos(OwnPositions(scored)))
  ELSE Sents(SortByPos(WalkPositions(scored, Greedy(scored, top_k))))

(***************************************************************************)
(* Scores are integers: ranker and relevance scores in thousandths,        *)
(* heuristic scores in tenths, fused scores in ten-thousandths.            *)
(***************************************************************************)
RECURSIVE SumSeq(_)
SumSeq(w) == IF w = <<>> THEN 0 ELSE Head(w) + SumSeq(Tail(w))

\* sorted(..., key=lambda x: x[1], reverse=True): stable, descending by score
RECURSIVE SortByScoreDesc(_)
SortByScoreDesc(entries) ==
  IF entries = <<>> THEN <<>>
  ELSE LET rest == SortByScoreDesc(SubSeq(entries, 1, Len(entries) - 1))
           x == entries[Len(entries)]
           k == Cardinality({i \in DOMAIN rest : rest[i].score >= x.score})
       IN SubSeq(rest, 1, k) \o <<x>> \o SubSeq(rest, k + 1, Len(rest))

\* nx.pagerank over the similarity graph of n sentences: the scores the
\* iteration can return, a distribution over the nodes (they sum to 1).  The
\* graph of a single sentence has one node, whose score is 1.0.
RankWeights == {1, 2}

\* variant: the scores are not normalised to sum to 1
PageRankUnnormalised(n) ==
  {[i \in 1..n |-> 1000 * w[i]] : w \in [1..n -> RankWeights]}

PageRankScores(n) ==
  IF n = 1 THEN {<<1000>>}
  ELSE {[i \in 1..n |-> (1000 * w[i]) \div SumSeq(w)] : w \in [1..n -> RankWeights]}

(***************************************************************************)
(* TextRankService.rank_sentences and _build_similarity_matrix.            *)
(* Similarities are in tenths, scores in thousandths.                      *)
(***************************************************************************)
\* settings.TEXTRANK_TOP_K
TEXTRANK_TOP_K == 10

\* np.fill_diagonal(matrix, value)
FillDiagonal(matrix, value) ==
  [i \in DOMAIN matrix |-> [j \in DOMAIN matrix[i] |->
     IF i = j THEN value ELSE matrix[i][j]]]

\* _build_similarity_matrix for n sentences: `cosine` is
\* cosine_similarity(tfidf_matrix, tfidf_matrix), `raises` says whether the
\* vectorizer raises
BuildSimilarityMatrix(n, cosine, raises) ==
  IF n = 1 THEN <<<<10>>>>
  ELSE IF raises THEN FillDiagonal([i \in 1..n |-> [j \in 1..n |-> 1]], 0)
  ELSE FillDiagonal(cosine, 0)

\* variant: the fallback scores follow the position
ScoresByPosition(n) == [i \in 1..n |-> 1000 * i]

\* the except clause of rank_sentences: {i: 1.0 / len(sentences)}
UniformScores(n) == [i \in 1..n |-> 1000 \div n]

\* whether an exception of nx.pagerank leaves rank_sentences: the bare
\* `except:` catches every one
RankRaises(pagerank_raises) == FALSE

\* scores of rank_sentences: nx.pagerank, or the uniform scores when it raises
ScoresOrUniform(n, scores, raises) ==
  IF raises THEN UniformScores(n) ELSE scores

\* variant: the sort puts the later of two equal scores first
RECURSIVE SortByScoreDescUnstable(_)
SortByScoreDescUnstable(entries) ==
  IF entries = <<>> THEN <<>>
  ELSE LET rest == SortByScoreDescUnstable(SubSeq(entries, 1, Len(entries) - 1))
           x == entries[Len(entries)]
           k == Cardinality({i \in DOMAIN rest : rest[i].score > x.score})
       IN SubSeq(rest, 1, k) \o <<x>> \o SubSeq(rest, k + 1, Len(rest))

\* variant of rank_sentences with that sort
RankSentencesUnstable(sentences, top_k, scores) ==
  LET ranked == SortByScoreDescUnstable(
                  [i \in DOMAIN sentences |->
                     [sent |-> sentences[i], score |-> scores[i], idx |-> i - 1]])
  IN SubSeq(ranked, 1, Min(top_k, Len(ranked)))

\* variant of rank_sentences that returns the whole ranking
RankSentencesNoCut(sentences, top_k, scores) ==
  SortByScoreDesc(
    [i \in DOMAIN sentences |->
       [sent |-> sentences[i], score |-> scores[i], idx |-> i - 1]])

\* TextRankService.rank_sentences(sentences, top_k), given the PageRank scores
RankSentences(sentences, top_k, scores) ==
  LET ranked == SortByScoreDesc(
                  [i \in DOMAIN sentences |->
                     [sent |-> sentences[i], score |-> scores[i], idx |-> i - 1]])
  IN SubSeq(ranked, 1, Min(top_k, Len(ranked)))

\* PRIORITY_KEYWORDS (weights in tenths): `keyword in sentence_lower` is a
\* substring test; these are the lower-cased words of the corpus vocabulary
\* that contain a keyword
KeywordWeight(word) ==
  CASE word = "issue" -> 20 [] word = "problem" -> 20
    [] word = "resolved" -> 25 [] word = "customer" -> 10
    [] word = "fixed" -> 20 [] word = "error" -> 20 [] word = "bug." -> 20
    [] OTHER -> 0

\* '?' in sentence, over the corpus vocabulary
HasQuestionMark(sentence) ==
  \E i \in DOMAIN sentence : sentence[i] \in {"email?"}

\* PreprocessorService.score_sentence_heuristic, in tenths
HeuristicScore(sentence, position, total) ==
  LET keyword_score == SumSeq([i \in DOMAIN sentence |->
                         IF \E j \in 1..(i - 1) : Lower(sentence[j]) = Lower(sentence[i])
                         THEN 0 ELSE KeywordWeight(Lower(sentence[i]))])
      position_bonus == IF position = 0 THEN 10
                        ELSE IF position = total - 1 THEN 8
                        ELSE IF position < 3 THEN 5 ELSE 0
      word_count == Len(sentence)
      length_bonus == IF 10 <= word_count /\ word_count <= 30 THEN 10
                      ELSE IF (8 <= word_count /\ word_count < 10)
                              \/ (30 < word_count /\ word_count <= 40) THEN 5
                      ELSE 0
      question_bonus == IF HasQuestionMark(sentence) THEN 5 ELSE 0
  IN keyword_score + position_bonus + length_bonus + question_bonus

\* scored_sentences of ExtractivePipeline.process, stage 3
HeuristicScores(sentences) ==
  [i \in DOMAIN sentences |->
     [sent |-> sentences[i],
      score |-> HeuristicScore(sentences[i], i - 1, Len(sentences)),
      idx |-> i - 1]]

\* textrank_map.get(sent, 0.0): the dict comprehension keeps, for a text that
\* occurs several times, the score of its last entry
TextRankMapGet(textrank_scores, sent) ==
  LET hits == {i \in DOMAIN textrank_scores : textrank_scores[i].sent = sent}
  IN IF hits = {} THEN 0
     ELSE textrank_scores[CHOOSE i \in hits : \A j \in hits : j <= i].score

\* ExtractivePipeline._combine_scores: 0.6 * t_score + 0.4 * (h_score / 10),
\* in ten-thousandths
CombineScores(heuristic_scores, textrank_scores) ==
  SortByScoreDesc(
    [i \in DOMAIN heuristic_scores |->
       [sent |-> heuristic_scores[i].sent,
        score |-> 6 * TextRankMapGet(textrank_scores, heuristic_scores[i].sent)
                  + 40 * heuristic_scores[i].score,
        idx |-> heuristic_scores[i].idx]])

\* ExtractivePipeline.process, stages 3 to 5, given the PageRank scores:
\* heuristic scoring, rank_sentences(sentences, top_k * 2), _combine_scores
\* and _select_diverse_sentences
ExtractiveStages(sentences, top_k, scores) ==
  LET scored_sentences == HeuristicScores(sentences)
      ranked_sentences == RankSentences(sentences, top_k * 2, scores)
      combined_scores == CombineScores(scored_sentences, ranked_sentences)
  IN [scored |-> scored_sentences, ranked |-> ranked_sentences,
      combined |-> combined_scores,
      final |-> SelectDiverse(combined_scores, top_k)]

\* torch.topk(similarity_scores, k): the index lists it can return.  torch
\* leaves the order among equal scores open: any of the best remaining
\* indices can come next.
RECURSIVE TopKFrom(_, _, _)
TopKFrom(scores, remaining, k) ==
  IF k = 0 \/ remaining = {} THEN {<<>>}
  ELSE LET best == {u \in remaining : \A v \in remaining : scores[v] <= scores[u]}
       IN UNION {{<<u - 1>> \o rest : rest \in TopKFrom(scores, remaining \ {u}, k - 1)}
                 : u \in best}

TopKResults(scores, k) == TopKFrom(scores, DOMAIN scores, k)

\* variant: topk over all the candidates
RerankCountAll(top_k, n) == n

\* k of torch.topk in rerank_with_embeddings
RerankCount(top_k, n) == Min(top_k, n)

\* a sentence as the string it is: its words separated by single spaces
Str(sent) ==
  [i \in 1..(2 * Len(sent) - 1) |-> IF i % 2 = 1 THEN sent[(i + 1) \div 2] ELSE " "]

\* ' '.join(sentences)
RECURSIVE JoinSpace(_)
JoinSpace(sentences) ==
  IF sentences = <<>> THEN <<>>
  ELSE IF Len(sentences) = 1 THEN Str(sentences[1])
  ELSE Str(sentences[1]) \o <<" ">> \o JoinSpace(Tail(sentences))

\* variant: the fallback joins every sentence
FallbackJoinAll(sentences) == JoinSpace(sentences)

\* ' '.join(sentences[:3]), the fallback of LLMService.generate_summary
FallbackSummary(sentences) ==
  JoinSpace(SubSeq(sentences, 1, Min(3, Len(sentences))))

\* the vocabulary TfidfVectorizer learns from the sentences: their
\* lower-cased words
Vocabulary(sentences) ==
  UNION {WordSet(sentences[i]) : i \in DOMAIN sentences}

\* variant: the vectorizer transforms with the vocabulary it already has
TransformOnly(fitted, sentences) == fitted

\* self.vectorizer.fit_transform(sentences): the vocabulary of the vectorizer
\* after the call, which is the one the TF-IDF matrix is built with
FitTransform(fitted, sentences) == Vocabulary(sentences)

\* _build_similarity_matrix(sentences): the vocabulary of the vectorizer
\* after the call; a single sentence returns before the vectorizer is used
VectorizerAfter(fitted, sentences) ==
  IF Len(sentences) = 1 THEN fitted ELSE FitTransform(fitted, sentences)

\* variant: the model is loaded on every call
LoadsAfterAlways(handle, n) == n + 1

\* _load_model: it loads only `if self.model is None`; the number of loads
\* after a call that returns
LoadsAfter(handle, n) == IF handle = "None" THEN n + 1 ELSE n

\* stop_after_attempt(3)
MaxAttempts == 3

\* except ValueError in summarize_text: pydantic's ValidationError is a
\* ValueError
IsValueError(exc) == exc \in {"ValueError", "ValidationError"}

\* the status summarize_text answers with when the pipeline raises exc
HandlerStatus(exc) == IF IsValueError(exc) THEN 400 ELSE 500

\* SentenceProvenance.score: Field(ge=0.0, le=1.0), in thousandths
ScoreValid(score) == 0 <= score /\ score <= 1000

(***************************************************************************)
(* TextRankService.rank_with_mmr.  Relevance and similarity are the cosine *)
(* similarities of the TF-IDF vectors, in tenths; lambda_param is 0.7, so  *)
(* ten times the MMR score is 7 * relevance - 3 * max_sim.                 *)
(***************************************************************************)
\* np.argmax / max(..., key=...): the first index of `order` with the
\* greatest value
FirstBest(order, value) ==
  order[CHOOSE i \in DOMAIN order :
          /\ \A j \in DOMAIN order : value[order[j]] <= value[order[i]]
          /\ \A j \in 1..(i - 1) : value[order[j]] < value[order[i]]]

\* list.remove(x)
RemoveIndex(order, x) ==
  LET i == CHOOSE j \in DOMAIN order : order[j] = x
  IN SubSeq(order, 1, i - 1) \o SubSeq(order, i + 1, Len(order))

\* np.max(similarities) of idx to the selected sentences
MaxSim(similarity, idx, selected_indices) ==
  LET sims == {similarity[idx][selected_indices[i]] : i \in DOMAIN selected_indices}
  IN CHOOSE m \in sims : \A x \in sims : x <= m

\* the while loop of rank_with_mmr; indices are one-based here
RECURSIVE MmrLoop(_, _, _, _, _)
MmrLoop(relevance, similarity, selected_indices, remaining_indices, top_k) ==
  IF Len(selected_indices) < top_k /\ remaining_indices # <<>>
  THEN LET mmr == [idx \in {remaining_indices[i] : i \in DOMAIN remaining_indices} |->
                     7 * relevance[idx] - 3 * MaxSim(similarity, idx, selected_indices)]
           best_idx == FirstBest(remaining_indices, mmr)
       IN MmrLoop(relevance, similarity, Append(selected_indices, best_idx),
                  RemoveIndex(remaining_indices, best_idx), top_k)
  ELSE selected_indices

\* selected_indices before the sort: the most relevant sentence, then the
\* picks of the loop
MmrSelected(relevance, similarity, n, top_k) ==
  LET all == [i \in 1..n |-> i]
      first_idx == FirstBest(all, relevance)
  IN MmrLoop(relevance, similarity, <<first_idx>>, RemoveIndex(all, first_idx), top_k)

\* selected_indices.sort()
RECURSIVE SortIndices(_)
SortIndices(indices) ==
  IF indices = <<>> THEN <<>>
  ELSE LET least == CHOOSE x \in {indices[i] : i \in DOMAIN indices} :
                       \A j \in DOMAIN indices : x <= indices[j]
       IN <<least>> \o SortIndices(RemoveIndex(indices, least))

\* variant: the selected indices are returned in the order they were picked
KeepPickOrder(indices) == indices

\* selected_indices after the sort
SortedIndices(indices) == SortIndices(indices)

\* TextRankService.rank_with_mmr(sentences, top_k=top_k); `raises` says
\* whether the try block raises (the vectorizer rejects the texts)
RankWithMmr(sentences, top_k, relevance, similarity, raises) ==
  IF sentences = <<>> THEN <<>>
  ELSE IF Len(sentences) <= top_k THEN sentences
  ELSE IF raises THEN SubSeq(sentences, 1, top_k)
  ELSE LET selected_indices ==
             SortedIndices(MmrSelected(relevance, similarity, Len(sentences), top_k))
       IN [i \in DOMAIN selected_indices |-> sentences[selected_indices[i]]]

(***************************************************************************)
(* PreprocessorService.preprocess.  A text is a sequence of lines, a line  *)
(* a sequence of whitespace-separated words; a cleaned text keeps "\n"     *)
(* words where it has line breaks.                                         *)
(***************************************************************************)
\* the lines of the input texts
TextLines ==
  {<<>>, <<"Resolution:">>, <<"Resolution:", "Cleared", "cookies.">>,
   <<"Cleared", "cookies.">>, <<"Subject:", "Login", "fails.">>}

RECURSIVE Flatten(_)
Flatten(lines) ==
  IF lines = <<>> THEN <<>> ELSE Head(lines) \o Flatten(Tail(lines))

\* _clean_text: REGEX_PATTERNS['whitespace'].sub(' ', text) turns every run
\* of whitespace, line breaks included, into one space, so the later
\* line-break normalisations find nothing; strip().  The result is one line.
CleanText(lines) == <<Flatten(lines)>>

\* text.split('\n') of a cleaned text
SplitLines(text) == text

\* str.rstrip(':') on a lower-cased word of the vocabulary
RStripColon(w) ==
  CASE w = "resolution:" -> "resolution" [] w = "subject:" -> "subject"
    [] OTHER -> w

\* line.rstrip(':').lower().strip()
SectionName(line) ==
  [i \in DOMAIN line |->
     IF i = Len(line) THEN RStripColon(Lower(line[i])) ELSE Lower(line[i])]

\* the number of characters of a word of the vocabulary
Chars(w) ==
  CASE w = "Resolution:" -> 11 [] w = "Subject:" -> 8 [] w = "Cleared" -> 7
    [] w = "cookies." -> 8 [] w = "Login" -> 5 [] w = "fails." -> 6
    [] OTHER -> 1

\* REGEX_PATTERNS['section_header'].match(line), ^[A-Z][A-Za-z\s]{1,30}:\s :
\* the line starts with a capital letter, letters and blanks follow up to a
\* colon, and whitespace (another word) follows the colon
MatchesHeaderPattern(line) ==
  \E k \in 1..(Len(line) - 1) :
     /\ line[1] \in {"Resolution:", "Subject:", "Cleared", "Login"}
     /\ \A j \in 1..(k - 1) : line[j] \in {"Cleared", "Login"}
     /\ line[k] \in {"Resolution:", "Subject:"}
     /\ LET between == SumSeq([j \in 1..k |-> Chars(line[j])]) + (k - 1) - 2
        IN 1 <= between /\ between <= 30

\* any(known in section_name for known in KNOWN_SECTIONS), over the
\* vocabulary: a substring test on the whole lower-cased line
NamesKnownSection(line) ==
  \E i \in DOMAIN line : Lower(line[i]) \in {"resolution:", "resolution"}

\* PreprocessorService._is_section_header
IsSectionHeader(line) == MatchesHeaderPattern(line) /\ NamesKnownSection(line)

\* sections[key] = value
DictSet(sections, key, value) == (key :> value) @@ sections

\* the loop of _extract_sections over the lines from i on
RECURSIVE SectionsFrom(_, _, _, _, _)
SectionsFrom(lines, i, sections, current_section, current_content) ==
  IF i > Len(lines)
  THEN IF current_content # <<>>
       THEN DictSet(sections, current_section, Flatten(current_content))
       ELSE sections
  ELSE IF lines[i] = <<>>
  THEN SectionsFrom(lines, i + 1, sections, current_section, current_content)
  ELSE IF IsSectionHeader(lines[i])
  THEN SectionsFrom(lines, i + 1,
                    IF current_content # <<>>
                    THEN DictSet(sections, current_section, Flatten(current_content))
                    ELSE sections,
                    SectionName(lines[i]), <<>>)
  ELSE SectionsFrom(lines, i + 1, sections, current_section,
                    Append(current_content, lines[i]))

\* the text a sequence of lines stands for
RECURSIVE JoinLines(_)
JoinLines(lines) ==
  IF lines = <<>> THEN <<>>
  ELSE IF Len(lines) = 1 THEN lines[1]
  ELSE lines[1] \o <<"\n">> \o JoinLines(Tail(lines))

\* PreprocessorService._extract_sections(text)
ExtractSections(text) ==
  LET sections == SectionsFrom(SplitLines(text), 1, <<>>, <<"body">>, <<>>)
  IN IF DOMAIN sections = {} \/ DOMAIN sections = {<<"body">>}
     THEN DictSet(sections, <<"body">>, JoinLines(text))
     ELSE sections

\* PreprocessorService.preprocess(text).sections
PreprocessSections(lines) == ExtractSections(CleanText(lines))

(***************************************************************************)
(* State.                                                                  *)
(***************************************************************************)
VARIABLES
  selScored,   \* _select_diverse_sentences: argument scored_sentences
  selTopK,     \* _select_diverse_sentences: argument top_k
  selOut,      \* _select_diverse_sentences: the returned list
  selPc,       \* "call" before the call, "done" after it
  mmrArgs,     \* rank_with_mmr: sentences, top_k, and what the try block finds
  mmrOut,      \* rank_with_mmr: the returned list
  mmrPc,       \* "call" before the call, "done" after it
  preText,     \* preprocess: argument text
  preSections, \* preprocess: sections of the result
  prePc,       \* "call" before the call, "done" after it
  rkArgs,      \* rank_sentences: sentences, top_k, and what its calls find
  rkOut,       \* rank_sentences: the similarity matrix and the returned list
  rkPc,        \* "call" before the call, "done" after it
  fuArgs,      \* extractive stages 3 to 5: sentences, top_k, PageRank scores
  fuOut,       \* extractive stages 3 to 5: ranked, fused and selected lists
  fuPc,        \* "call" before the call, "done" after it
  pipelines,   \* main.pipelines: the modes that have a pipeline registered
  llmClient,   \* LLMService.client is set (GROQ_API_KEY was configured)
  model,       \* EmbeddingService.model: "None" or "loaded"
  loads,       \* EmbeddingService: the successful runs of _load_model
  vectorizer,  \* TextRankService.vectorizer: the vocabulary it was last fit to
  running,     \* the request whose coroutine holds the event loop, or NoReq
  req,         \* per request: the SummarizationRequest
  pc,          \* per request: where its coroutine stands
  loc,         \* per request: the locals of pipeline.process
  stages,      \* per request: the stage log (names of the PipelineStage entries)
  resp,        \* per request: the HTTP response, status 0 while there is none
  calls,       \* per request: the service operations invoked for it
  posts        \* per request: the calls of client.post made for it

selVars == <<selScored, selTopK, selOut, selPc>>
mmrVars == <<mmrArgs, mmrOut, mmrPc>>
preVars == <<preText, preSections, prePc>>
rkVars == <<rkArgs, rkOut, rkPc>>
fuVars == <<fuArgs, fuOut, fuPc>>
callVars == <<selVars, mmrVars, preVars, rkVars, fuVars>>
services == <<pipelines, llmClient, model, loads, vectorizer>>
reqVars == <<running, req, pc, loc, stages, resp, calls, posts>>
vars == <<selScored, selTopK, selOut, selPc, mmrArgs, mmrOut, mmrPc,
          preText, preSections, prePc, rkArgs, rkOut, rkPc,
          fuArgs, fuOut, fuPc, pipelines, llmClient, model,
          loads, vectorizer,
          running, req, pc, loc, stages, resp, calls, posts>>

Req == {"r1", "r2"}
NoReq == "none"
Modes == {"extractive", "semantic", "abstractive"}

\* the sentences of the requests
PipelineCorpus == {C_login, C_fix}

\* cos_sim(query_embedding, candidate_embeddings), in thousandths: the
\* similarity of one text to the query
RelScores == {-200, 600}

\* the similarity of every text to the query: encode is a function of the
\* text, so equal sentences score equally, and different texts differ
Similarities ==
  {f \in [PipelineCorpus -> RelScores] :
     \A a, b \in PipelineCorpus : a # b => f[a] # f[b]}

\* summary.strip() of a successful Groq reply
GeneratedText == <<"Generated", " ", "summary.">>

\* SummarizationRequest: Field(min_length=10, max_length=10000) of text and
\* Field(ge=1, le=10) of top_k
MinTextLength == 10
MaxTextLength == 10000
MinTopK == 1
MaxTopKAllowed == 10

\* variant: the validation of text does not look for blank text
ValidRequestBlankAllowed(q) ==
  /\ MinTextLength <= q.text_chars /\ q.text_chars <= MaxTextLength
  /\ q.mode \in Modes
  /\ MinTopK <= q.top_k /\ q.top_k <= MaxTopKAllowed

\* the validation of SummarizationRequest: the length of text, validate_text
\* (text.strip() is not empty), the PipelineMode enum and the range of top_k
ValidRequest(q) ==
  /\ MinTextLength <= q.text_chars /\ q.text_chars <= MaxTextLength
  /\ ~q.text_blank
  /\ q.mode \in Modes
  /\ MinTopK <= q.top_k /\ q.top_k <= MaxTopKAllowed

NoRequest ==
  [mode |-> "extractive", top_k |-> 1, include_provenance |-> FALSE,
   sentences |-> <<>>, text_chars |-> 100, text_blank |-> FALSE]

\* the requests with sentences: `sentences` is what extract_sentences finds
\* in the text, text_chars the length of the text, text_blank whether it is
\* empty or whitespace only
SentenceRequests ==
  [mode : Modes, top_k : 1..MaxTopK, include_provenance : BOOLEAN,
   sentences : UNION {[1..n -> PipelineCorpus] : n \in 0..MaxSentences},
   text_chars : {100}, text_blank : {FALSE}]

\* the requests at and beyond the limits of the schema; a text of these
\* lengths holds no sentence of MIN_SENTENCE_LENGTH..MAX_SENTENCE_LENGTH words
EdgeRequests ==
  {q \in [mode : Modes \cup {"invalid_mode"},
          top_k : {MinTopK - 1, MinTopK, MaxTopKAllowed, MaxTopKAllowed + 1},
          include_provenance : {TRUE},
          sentences : {<<>>},
          text_chars : {0, MinTextLength - 1, MinTextLength, MaxTextLength,
                        MaxTextLength + 1},
          text_blank : BOOLEAN] :
     q.text_chars = 0 => q.text_blank}

Requests == SentenceRequests \cup EdgeRequests

\* the requests of the two-request workload
ServeRequests ==
  [mode : Modes, top_k : {1, 2}, include_provenance : {TRUE},
   sentences : {<<>>, <<C_login, C_fix>>, <<C_login, C_login>>},
   text_chars : {100}, text_blank : {FALSE}]
    \cup {[mode |-> "invalid_mode", top_k |-> 1, include_provenance |-> TRUE,
           sentences |-> <<>>, text_chars |-> 100, text_blank |-> FALSE]}

NoLocals ==
  [sentences |-> <<>>, scored |-> <<>>, ranked |-> <<>>, combined |-> <<>>,
   candidates |-> <<>>, top_indices |-> <<>>, top_scores |-> <<>>,
   final |-> <<>>, summary |-> <<>>, attempt |-> 0, vocabulary |-> {}]

NoResponse ==
  [status |-> 0, detail |-> "", summary |-> <<>>, mode |-> "",
   sentences_extracted |-> <<>>, provenance |-> <<>>, has_provenance |-> FALSE,
   total_sentences |-> 0, pipeline_stages |-> <<>>]

\* the HTTPException summarize_text raises from its except clauses
ErrorResponse(status, exc) ==
  [NoResponse EXCEPT !.status = status, !.detail = exc]

\* variant: the empty response drops the stage log
EmptyResponseNoStages(mode, stage_log) ==
  [NoResponse EXCEPT !.status = 200,
                     !.summary = <<"No", " ", "content", " ", "to", " ", "summarize">>,
                     !.mode = mode,
                     !.has_provenance = (mode = "extractive")]

\* _create_empty_response of the three pipelines (extractive passes
\* provenance=[], the others leave it None)
EmptyResponse(mode, stage_log) ==
  [NoResponse EXCEPT !.status = 200,
                     !.summary = <<"No", " ", "content", " ", "to", " ", "summarize">>,
                     !.mode = mode,
                     !.has_provenance = (mode = "extractive"),
                     !.pipeline_stages = stage_log]

\* the permutations of 0..n-1, as sequences
Perms(n) ==
  {p \in [1..n -> 0..(n - 1)] : \A i, j \in 1..n : i # j => p[i] # p[j]}

\* the fused lists _combine_scores can hand to the selection: one entry per
\* position, the scores descending
ScoredLists ==
  UNION {
    {[i \in 1..n |-> [sent |-> doc[p[i] + 1], score |-> n - i, idx |-> p[i]]] :
        doc \in [1..n -> Corpus], p \in Perms(n)}
    : n \in 0..MaxSelLen}

InitIdle ==
  /\ pipelines = {}
  /\ llmClient = FALSE
  /\ model = "None"
  /\ loads = 0
  /\ vectorizer = {}
  /\ running = NoReq
  /\ loc = [r \in Req |-> NoLocals]
  /\ stages = [r \in Req |-> <<>>]
  /\ resp = [r \in Req |-> NoResponse]
  /\ calls = [r \in Req |-> {}]
  /\ posts = [r \in Req |-> 0]

\* no call of rank_with_mmr
InitMmrIdle ==
  /\ mmrArgs = [sentences |-> <<>>, top_k |-> 1, relevance |-> <<>>,
                similarity |-> <<>>, raises |-> FALSE]
  /\ mmrOut = <<>>
  /\ mmrPc = "idle"

\* no call of preprocess
InitPreIdle ==
  /\ preText = <<>>
  /\ preSections = <<>>
  /\ prePc = "idle"

NoRankOut == [matrix |-> <<>>, ranked |-> <<>>, raised |-> FALSE]

\* no call of rank_sentences
InitRankIdle ==
  /\ rkArgs = [sentences |-> <<>>, top_k |-> 1, top_k_none |-> FALSE,
               cosine |-> <<>>, vectorizer_raises |-> FALSE,
               scores |-> <<>>, pagerank_raises |-> FALSE]
  /\ rkOut = NoRankOut
  /\ rkPc = "idle"

NoFuseOut == [scored |-> <<>>, ranked |-> <<>>, combined |-> <<>>, final |-> <<>>]

\* no run of the extractive stages on their own
InitFuseIdle ==
  /\ fuArgs = [sentences |-> <<>>, top_k |-> 1, scores |-> <<>>]
  /\ fuOut = NoFuseOut
  /\ fuPc = "idle"

InitSelect ==
  /\ selScored \in ScoredLists
  /\ selTopK \in 1..MaxSelTopK
  /\ selOut = <<>>
  /\ selPc = "call"
  /\ InitMmrIdle
  /\ InitPreIdle
  /\ InitRankIdle
  /\ InitFuseIdle
  /\ InitIdle
  /\ req = [r \in Req |-> NoRequest]
  /\ pc = [r \in Req |-> "absent"]

CallSelect ==
  /\ selPc = "call"
  /\ selOut' = SelectDiverse(selScored, selTopK)
  /\ selPc' = "done"
  /\ UNCHANGED <<selScored, selTopK, mmrVars, preVars, rkVars, fuVars, services, reqVars>>

NextSelect == CallSelect

SpecSelect == InitSelect /\ [][NextSelect]_vars

(***************************************************************************)
(* rank_with_mmr on its own: every non-empty list of up to MaxMmrLen       *)
(* sentences, every top_k from 1 to MaxMmrTopK, every relevance vector and *)
(* symmetric similarity matrix over two levels, with and without an        *)
(* exception in the try block.                                             *)
(***************************************************************************)
MmrSentences == {C_login, C_fix}

\* cosine similarities in tenths
MmrLevels == {2, 9}

\* symmetric matrices with 1.0 on the diagonal
SimilarityMatrices(n) ==
  LET pairs == {p \in (1..n) \X (1..n) : p[1] < p[2]}
  IN {[i \in 1..n |-> [j \in 1..n |->
         IF i = j THEN 10 ELSE IF i < j THEN upper[<<i, j>>] ELSE upper[<<j, i>>]]] :
      upper \in [pairs -> MmrLevels]}

MmrCalls ==
  UNION {[sentences : [1..n -> MmrSentences], top_k : 1..MaxMmrTopK,
          relevance : [1..n -> MmrLevels], similarity : SimilarityMatrices(n),
          raises : BOOLEAN] : n \in 1..MaxMmrLen}

InitSelIdle ==
  /\ selScored = <<>>
  /\ selTopK = 1
  /\ selOut = <<>>
  /\ selPc = "idle"

InitMMR ==
  /\ mmrArgs \in MmrCalls
  /\ mmrOut = <<>>
  /\ mmrPc = "call"
  /\ InitSelIdle
  /\ InitPreIdle
  /\ InitRankIdle
  /\ InitFuseIdle
  /\ InitIdle
  /\ req = [r \in Req |-> NoRequest]
  /\ pc = [r \in Req |-> "absent"]

CallMmr ==
  /\ mmrPc = "call"
  /\ mmrOut' = RankWithMmr(mmrArgs.sentences, mmrArgs.top_k, mmrArgs.relevance,
                           mmrArgs.similarity, mmrArgs.raises)
  /\ mmrPc' = "done"
  /\ UNCHANGED <<mmrArgs, selVars, preVars, rkVars, fuVars, services, reqVars>>

NextMMR == CallMmr

SpecMMR == InitMMR /\ [][NextMMR]_vars

(***************************************************************************)
(* preprocess on its own: every text of one to MaxLines lines.             *)
(***************************************************************************)
Texts == UNION {[1..n -> TextLines] : n \in 1..MaxLines}

InitPre ==
  /\ preText \in Texts
  /\ preSections = <<>>
  /\ prePc = "call"
  /\ InitSelIdle
  /\ InitMmrIdle
  /\ InitRankIdle
  /\ InitFuseIdle
  /\ InitIdle
  /\ req = [r \in Req |-> NoRequest]
  /\ pc = [r \in Req |-> "absent"]

CallPreprocess ==
  /\ prePc = "call"
  /\ preSections' = PreprocessSections(preText)
  /\ prePc' = "done"
  /\ UNCHANGED <<preText, selVars, mmrVars, rkVars, fuVars, services, reqVars>>

NextPre == CallPreprocess

SpecPre == InitPre /\ [][NextPre]_vars

(***************************************************************************)
(* rank_sentences on its own: every list of one to MaxRankLen sentences,   *)
(* top_k from 1 to MaxRankTopK or left out, every cosine matrix and        *)
(* PageRank result, with and without an exception in the vectorizer and    *)
(* in nx.pagerank.                                                         *)
(***************************************************************************)
RankCalls ==
  UNION {[sentences : [1..n -> MmrSentences], top_k : 1..MaxRankTopK,
          top_k_none : BOOLEAN, cosine : SimilarityMatrices(n),
          vectorizer_raises : BOOLEAN, scores : PageRankScores(n),
          pagerank_raises : BOOLEAN] : n \in 1..MaxRankLen}

InitRank ==
  /\ rkArgs \in {a \in RankCalls : a.top_k_none => a.top_k = 1}
  /\ rkOut = NoRankOut
  /\ rkPc = "call"
  /\ InitSelIdle
  /\ InitMmrIdle
  /\ InitPreIdle
  /\ InitFuseIdle
  /\ InitIdle
  /\ req = [r \in Req |-> NoRequest]
  /\ pc = [r \in Req |-> "absent"]

\* rank_sentences(sentences, top_k) for non-empty sentences: no exception
\* leaves it, the two that can occur are caught inside
CallRankSentences ==
  /\ rkPc = "call"
  /\ LET n == Len(rkArgs.sentences)
         top_k == IF rkArgs.top_k_none THEN TEXTRANK_TOP_K ELSE rkArgs.top_k
         similarity_matrix ==
           BuildSimilarityMatrix(n, rkArgs.cosine, rkArgs.vectorizer_raises)
         scores == ScoresOrUniform(n, rkArgs.scores, rkArgs.pagerank_raises)
     IN rkOut' = IF RankRaises(rkArgs.pagerank_raises)
                 THEN [NoRankOut EXCEPT !.raised = TRUE]
                 ELSE [matrix |-> similarity_matrix,
                       ranked |-> RankSentences(rkArgs.sentences, top_k, scores),
                       raised |-> FALSE]
  /\ rkPc' = "done"
  /\ UNCHANGED <<rkArgs, selVars, mmrVars, preVars, fuVars, services, reqVars>>

NextRank == CallRankSentences

SpecRank == InitRank /\ [][NextRank]_vars

(***************************************************************************)
(* Stages 3 to 5 of the extractive pipeline on their own: every list of    *)
(* one to MaxFuseLen sentences, every top_k from 1 to MaxFuseTopK and      *)
(* every PageRank result.                                                  *)
(***************************************************************************)
FuseCorpus == {C_login, C_fix, C_stale}

FuseCalls ==
  UNION {[sentences : [1..n -> FuseCorpus], top_k : 1..MaxFuseTopK,
          scores : PageRankScores(n)] : n \in 1..MaxFuseLen}

InitFuse ==
  /\ fuArgs \in FuseCalls
  /\ fuOut = NoFuseOut
  /\ fuPc = "call"
  /\ InitSelIdle
  /\ InitMmrIdle
  /\ InitPreIdle
  /\ InitRankIdle
  /\ InitIdle
  /\ req = [r \in Req |-> NoRequest]
  /\ pc = [r \in Req |-> "absent"]

CallExtractiveStages ==
  /\ fuPc = "call"
  /\ fuOut' = ExtractiveStages(fuArgs.sentences, fuArgs.top_k, fuArgs.scores)
  /\ fuPc' = "done"
  /\ UNCHANGED <<fuArgs, selVars, mmrVars, preVars, rkVars, services, reqVars>>

NextFuse == CallExtractiveStages

SpecFuse == InitFuse /\ [][NextFuse]_vars

(***************************************************************************)
(* The server: lifespan, summarize_text and the three pipelines.  The      *)
(* coroutine of a request keeps the event loop from one await of an        *)
(* external call to the next.                                              *)
(***************************************************************************)
\* one request
Init ==
  /\ InitSelIdle
  /\ InitMmrIdle
  /\ InitPreIdle
  /\ InitRankIdle
  /\ InitFuseIdle
  /\ InitIdle
  /\ \E q \in Requests : req = [r \in Req |-> IF r = "r1" THEN q ELSE NoRequest]
  /\ pc = [r \in Req |-> IF r = "r1" THEN "new" ELSE "absent"]

\* two requests
InitServe ==
  /\ InitSelIdle
  /\ InitMmrIdle
  /\ InitPreIdle
  /\ InitRankIdle
  /\ InitFuseIdle
  /\ InitIdle
  /\ req \in [Req -> ServeRequests]
  /\ pc = [r \in Req |-> "new"]

\* the coroutine of r runs a step that does not end at an await
Step(r, from, to) ==
  /\ pc[r] = from
  /\ running = r
  /\ pc' = [pc EXCEPT ![r] = to]
  /\ UNCHANGED running

\* an exception leaves pipeline.process: the except clauses of summarize_text
Raise(r, exc) ==
  /\ resp' = [resp EXCEPT ![r] = ErrorResponse(HandlerStatus(exc), exc)]
  /\ pc' = [pc EXCEPT ![r] = "done"]
  /\ running' = NoReq

\* pipeline.process returns and summarize_text returns its result
Return(r, response) ==
  /\ resp' = [resp EXCEPT ![r] = response]
  /\ pc' = [pc EXCEPT ![r] = "done"]
  /\ running' = NoReq

\* lifespan: the services and the pipelines map are built at startup
Lifespan ==
  /\ pipelines = {}
  /\ \A r \in Req : pc[r] \in {"new", "absent"}
  /\ pipelines' = Modes
  /\ llmClient' \in BOOLEAN
  /\ UNCHANGED <<model, loads, vectorizer, callVars, reqVars>>

\* FastAPI validates the body against SummarizationRequest before it calls
\* summarize_text: an invalid request is answered 422 and the handler never
\* runs
RejectInvalid(r) ==
  /\ pc[r] = "new"
  /\ running = NoReq
  /\ ~ValidRequest(req[r])
  /\ resp' = [resp EXCEPT ![r] = ErrorResponse(422, "RequestValidationError")]
  /\ pc' = [pc EXCEPT ![r] = "done"]
  /\ UNCHANGED <<callVars, services, running, req, loc, stages, calls, posts>>

\* summarize_text up to the call of pipeline.process
SummarizeText(r) ==
  /\ pc[r] = "new"
  /\ running = NoReq
  /\ ValidRequest(req[r])
  /\ IF req[r].mode \in pipelines
     THEN /\ pc' = [pc EXCEPT ![r] = "preprocess"]
          /\ running' = r
          /\ UNCHANGED resp
     ELSE Raise(r, "HTTPException")
  /\ UNCHANGED <<callVars, services, req, loc, stages, calls, posts>>

\* stage 1 of the three pipelines
Preprocess(r) ==
  /\ Step(r, "preprocess", "extract")
  /\ stages' = [stages EXCEPT ![r] = Append(@, "Preprocessing")]
  /\ calls' = [calls EXCEPT ![r] = @ \cup {"preprocess"}]
  /\ UNCHANGED <<callVars, services, req, loc, resp, posts>>

\* stage 2 of the three pipelines
ExtractSentences(r) ==
  /\ pc[r] = "extract"
  /\ running = r
  /\ calls' = [calls EXCEPT ![r] = @ \cup {"extract_sentences"}]
  /\ loc' = [loc EXCEPT ![r].sentences = req[r].sentences]
  /\ IF req[r].sentences = <<>>
     THEN /\ Return(r, EmptyResponse(req[r].mode, stages[r]))
          /\ UNCHANGED stages
     ELSE /\ stages' = [stages EXCEPT ![r] = Append(@, "Sentence Extraction")]
          /\ pc' = [pc EXCEPT ![r] =
                      CASE req[r].mode = "extractive" -> "heuristic"
                        [] req[r].mode = "semantic" -> "sem_textrank"
                        [] OTHER -> "abs_textrank"]
          /\ UNCHANGED <<running, resp>>
  /\ UNCHANGED <<callVars, services, req, posts>>

\* ExtractivePipeline.process, stage 3: heuristic scoring
HeuristicScoring(r) ==
  /\ Step(r, "heuristic", "ext_textrank")
  /\ loc' = [loc EXCEPT ![r].scored = HeuristicScores(loc[r].sentences)]
  /\ stages' = [stages EXCEPT ![r] = Append(@, "Heuristic Scoring")]
  /\ calls' = [calls EXCEPT ![r] = @ \cup {"score_sentence_heuristic"}]
  /\ UNCHANGED <<callVars, services, req, resp, posts>>

\* ExtractivePipeline.process, stage 4: rank_sentences(sentences, top_k * 2)
ExtTextRank(r) ==
  /\ Step(r, "ext_textrank", "ext_select")
  /\ \E scores \in PageRankScores(Len(loc[r].sentences)) :
        loc' = [loc EXCEPT ![r].ranked =
                  RankSentences(loc[r].sentences, req[r].top_k * 2, scores),
                           ![r].vocabulary =
                  VectorizerAfter(vectorizer, loc[r].sentences)]
  /\ vectorizer' = VectorizerAfter(vectorizer, loc[r].sentences)
  /\ stages' = [stages EXCEPT ![r] = Append(@, "TextRank")]
  /\ calls' = [calls EXCEPT ![r] = @ \cup {"rank_sentences"}]
  /\ UNCHANGED <<callVars, pipelines, llmClient, model, loads, req, resp, posts>>

\* ExtractivePipeline.process, stage 5: _combine_scores and
\* _select_diverse_sentences
ExtFinalSelection(r) ==
  /\ Step(r, "ext_select", "ext_respond")
  /\ LET combined_scores == CombineScores(loc[r].scored, loc[r].ranked)
     IN loc' = [loc EXCEPT ![r].combined = combined_scores,
                           ![r].final = SelectDiverse(combined_scores, req[r].top_k)]
  /\ stages' = [stages EXCEPT ![r] = Append(@, "Final Selection")]
  /\ UNCHANGED <<callVars, services, req, resp, calls, posts>>

\* provenance of ExtractivePipeline.process: combined_scores[:10], the fused
\* score (ten-thousandths) as the entry's score
ExtProvenance(combined_scores) ==
  [i \in 1..Min(10, Len(combined_scores)) |->
     [sentence |-> combined_scores[i].sent,
      score |-> combined_scores[i].score \div 10,
      exact |-> combined_scores[i].score,
      position |-> combined_scores[i].idx]]

\* ExtractivePipeline.process: the provenance list and the response
ExtRespond(r) ==
  /\ pc[r] = "ext_respond"
  /\ running = r
  /\ LET provenance == IF req[r].include_provenance
                       THEN ExtProvenance(loc[r].combined) ELSE <<>>
     IN IF \E i \in DOMAIN provenance :
             ~(0 <= provenance[i].exact /\ provenance[i].exact <= 10000)
        THEN Raise(r, "ValidationError")
        ELSE Return(r, [NoResponse EXCEPT
                          !.status = 200,
                          !.summary = JoinSpace(loc[r].final),
                          !.mode = "extractive",
                          !.sentences_extracted = loc[r].final,
                          !.provenance = provenance,
                          !.has_provenance = req[r].include_provenance,
                          !.total_sentences = Len(loc[r].sentences),
                          !.pipeline_stages = stages[r]])
  /\ UNCHANGED <<callVars, services, req, loc, stages, calls, posts>>

\* SemanticPipeline.process, stage 3: candidate_k = min(top_k * 3, n)
SemTextRank(r) ==
  /\ Step(r, "sem_textrank", "sem_rerank")
  /\ \E scores \in PageRankScores(Len(loc[r].sentences)) :
        LET candidate_k == Min(req[r].top_k * 3, Len(loc[r].sentences))
            ranked == RankSentences(loc[r].sentences, candidate_k, scores)
        IN loc' = [loc EXCEPT ![r].candidates = Sents(ranked),
                              ![r].vocabulary =
                     VectorizerAfter(vectorizer, loc[r].sentences)]
  /\ vectorizer' = VectorizerAfter(vectorizer, loc[r].sentences)
  /\ stages' = [stages EXCEPT ![r] = Append(@, "TextRank")]
  /\ calls' = [calls EXCEPT ![r] = @ \cup {"rank_sentences"}]
  /\ UNCHANGED <<callVars, pipelines, llmClient, model, loads, req, resp, posts>>

\* AbstractivePipeline.process, stage 3: rank_sentences(sentences, top_k * 2)
AbsTextRank(r) ==
  /\ Step(r, "abs_textrank", "abs_rerank")
  /\ \E scores \in PageRankScores(Len(loc[r].sentences)) :
        LET ranked == RankSentences(loc[r].sentences, req[r].top_k * 2, scores)
            top == SubSeq(ranked, 1, Min(req[r].top_k * 2, Len(ranked)))
        IN loc' = [loc EXCEPT ![r].candidates = Sents(top),
                              ![r].vocabulary =
                     VectorizerAfter(vectorizer, loc[r].sentences)]
  /\ vectorizer' = VectorizerAfter(vectorizer, loc[r].sentences)
  /\ stages' = [stages EXCEPT ![r] = Append(@, "TextRank")]
  /\ calls' = [calls EXCEPT ![r] = @ \cup {"rank_sentences"}]
  /\ UNCHANGED <<callVars, pipelines, llmClient, model, loads, req, resp, posts>>

\* EmbeddingService.rerank_with_embeddings(query, candidates, top_k) called
\* from stage 4 of the semantic and the abstractive pipeline: _load_model,
\* the two encode calls, cos_sim and topk.  Loading or encoding can raise;
\* the pipelines do not catch.
Rerank(r, from, to, stage) ==
  /\ pc[r] = from
  /\ running = r
  /\ calls' = [calls EXCEPT ![r] = @ \cup {"rerank_with_embeddings"}]
  /\ \/ \* _load_model raises: the model stays None
        /\ model = "None"
        /\ Raise(r, "OSError")
        /\ UNCHANGED <<model, loads, loc, stages>>
     \/ \* the model is there or is loaded now; encode raises
        /\ model' = "loaded"
        /\ loads' = LoadsAfter(model, loads)
        /\ Raise(r, "RuntimeError")
        /\ UNCHANGED <<loc, stages>>
     \/ \* the call returns the top indices and their scores
        /\ model' = "loaded"
        /\ loads' = LoadsAfter(model, loads)
        /\ \E rel \in Similarities :
             LET similarity_scores == [i \in DOMAIN loc[r].candidates |->
                                         rel[loc[r].candidates[i]]]
                 k == RerankCount(req[r].top_k, Len(loc[r].candidates))
             IN \E top_indices \in TopKResults(similarity_scores, k) :
                  loc' = [loc EXCEPT
                            ![r].top_indices = top_indices,
                            ![r].top_scores = [i \in 1..k |->
                                 similarity_scores[top_indices[i] + 1]],
                            ![r].final = [i \in 1..k |->
                                 loc[r].candidates[top_indices[i] + 1]]]
        /\ stages' = [stages EXCEPT ![r] = Append(@, stage)]
        /\ pc' = [pc EXCEPT ![r] = to]
        /\ UNCHANGED <<running, resp>>
  /\ UNCHANGED <<callVars, pipelines, llmClient, vectorizer, req, posts>>

\* variant: stage 4 of the semantic pipeline logged under the name the
\* abstractive pipeline uses
SemRerankAbsName(r) == Rerank(r, "sem_rerank", "sem_respond", "Semantic Re-ranking")

\* SemanticPipeline.process, stage 4
SemRerank(r) == Rerank(r, "sem_rerank", "sem_respond", "DistilBERT Re-ranking")

\* AbstractivePipeline.process, stage 4
AbsRerank(r) == Rerank(r, "abs_rerank", "abs_generate", "Semantic Re-ranking")

\* provenance of the semantic and the abstractive pipeline: one entry per
\* (idx, score) of zip(top_indices, similarity_scores)
RerankProvenance(candidates, top_indices, top_scores) ==
  [i \in 1..Min(Len(top_indices), Len(top_scores)) |->
     [sentence |-> candidates[top_indices[i] + 1],
      score |-> top_scores[i],
      exact |-> top_scores[i] * 10,
      position |-> top_indices[i]]]

\* the provenance list and the response of the semantic and the abstractive
\* pipeline
RerankRespond(r, from, summary) ==
  /\ pc[r] = from
  /\ running = r
  /\ LET provenance == IF req[r].include_provenance
                       THEN RerankProvenance(loc[r].candidates, loc[r].top_indices,
                                             loc[r].top_scores)
                       ELSE <<>>
     IN IF \E i \in DOMAIN provenance : ~ScoreValid(provenance[i].score)
        THEN Raise(r, "ValidationError")
        ELSE Return(r, [NoResponse EXCEPT
                          !.status = 200,
                          !.summary = summary,
                          !.mode = req[r].mode,
                          !.sentences_extracted = loc[r].final,
                          !.provenance = provenance,
                          !.has_provenance = req[r].include_provenance,
                          !.total_sentences = Len(loc[r].sentences),
                          !.pipeline_stages = stages[r]])
  /\ UNCHANGED <<callVars, services, req, loc, stages, calls, posts>>

\* SemanticPipeline.process: provenance, summary_text and the response
SemRespond(r) == RerankRespond(r, "sem_respond", JoinSpace(loc[r].final))

\* AbstractivePipeline.process: provenance and the response
AbsRespond(r) == RerankRespond(r, "abs_respond", loc[r].summary)

\* AbstractivePipeline.process, stage 5: the first attempt of
\* LLMService.generate_summary.  Without a client it returns the fallback at
\* once; with one it posts to the API and awaits the reply.
AbsGenerate(r) ==
  /\ pc[r] = "abs_generate"
  /\ running = r
  /\ calls' = [calls EXCEPT ![r] = @ \cup {"generate_summary"}]
  /\ IF ~llmClient
     THEN /\ loc' = [loc EXCEPT ![r].summary = FallbackSummary(loc[r].final),
                                ![r].attempt = 1]
          /\ stages' = [stages EXCEPT ![r] = Append(@, "LLM Generation")]
          /\ pc' = [pc EXCEPT ![r] = "abs_respond"]
          /\ UNCHANGED <<running, posts>>
     ELSE /\ loc' = [loc EXCEPT ![r].attempt = 1]
          /\ posts' = [posts EXCEPT ![r] = @ + 1]
          /\ pc' = [pc EXCEPT ![r] = "llm_wait"]
          /\ running' = NoReq
          /\ UNCHANGED stages
  /\ UNCHANGED <<callVars, services, req, resp>>

\* the awaited client.post completes with a summary: generate_summary
\* returns it and stage 5 is logged
LLMReply(r) ==
  /\ pc[r] = "llm_wait"
  /\ running = NoReq
  /\ loc' = [loc EXCEPT ![r].summary = GeneratedText]
  /\ stages' = [stages EXCEPT ![r] = Append(@, "LLM Generation")]
  /\ pc' = [pc EXCEPT ![r] = "abs_respond"]
  /\ running' = r
  /\ UNCHANGED <<callVars, services, req, resp, calls, posts>>

\* variant: a failed attempt is always followed by another
LLMFailureRetryAlways(r) ==
  /\ pc[r] = "llm_wait"
  /\ running = NoReq
  /\ pc' = [pc EXCEPT ![r] = "llm_backoff"]
  /\ UNCHANGED <<running, resp>>
  /\ UNCHANGED <<callVars, services, req, loc, stages, calls, posts>>

\* the awaited client.post fails (status, connection, format): the attempt
\* raises.  @retry(stop_after_attempt(3)) sleeps before the next attempt, or,
\* after the last one, raises RetryError, which nothing catches before
\* summarize_text.
LLMFailure(r) ==
  /\ pc[r] = "llm_wait"
  /\ running = NoReq
  /\ IF loc[r].attempt < MaxAttempts
     THEN /\ pc' = [pc EXCEPT ![r] = "llm_backoff"]
          /\ UNCHANGED <<running, resp>>
     ELSE Raise(r, "RetryError")
  /\ UNCHANGED <<callVars, services, req, loc, stages, calls, posts>>

\* the backoff sleep is over: the next attempt of generate_summary posts again
LLMRetry(r) ==
  /\ pc[r] = "llm_backoff"
  /\ running = NoReq
  /\ loc' = [loc EXCEPT ![r].attempt = @ + 1]
  /\ posts' = [posts EXCEPT ![r] = @ + 1]
  /\ pc' = [pc EXCEPT ![r] = "llm_wait"]
  /\ UNCHANGED <<callVars, services, running, req, stages, resp, calls>>

Next ==
  \/ Lifespan
  \/ \E r \in Req :
       \/ RejectInvalid(r)
       \/ SummarizeText(r)
       \/ Preprocess(r)
       \/ ExtractSentences(r)
       \/ HeuristicScoring(r)
       \/ ExtTextRank(r)
       \/ ExtFinalSelection(r)
       \/ ExtRespond(r)
       \/ SemTextRank(r)
       \/ SemRerank(r)
       \/ SemRespond(r)
       \/ AbsTextRank(r)
       \/ AbsRerank(r)
       \/ AbsGenerate(r)
       \/ LLMReply(r)
       \/ LLMFailure(r)
       \/ LLMRetry(r)
       \/ AbsRespond(r)

Spec == Init /\ [][Next]_vars

SpecServe == InitServe /\ [][Next]_vars

(***************************************************************************)
(* Claims about _select_diverse_sentences (checked under SpecSelect).     *)
(***************************************************************************)
selN == Len(selScored)

\* the input sentence sequence: the sentence at each position
selDoc ==
  [i \in 1..selN |->
     selScored[CHOOSE j \in 1..selN : selScored[j].idx = i - 1]]

\* s is a subsequence of t
RECURSIVE IsSubsequence(_, _)
IsSubsequence(s, t) ==
  IF s = <<>> THEN TRUE
  ELSE IF t = <<>> THEN FALSE
  ELSE IF Head(s) = Head(t) THEN IsSubsequence(Tail(s), Tail(t))
  ELSE IsSubsequence(s, Tail(t))

\* Jaccard word overlap of two sentences above one half, over lower-cased
\* whitespace-separated word sets
JaccardAboveHalf(a, b) ==
  LET A == {Lower(a[i]) : i \in DOMAIN a}
      B == {Lower(b[i]) : i \in DOMAIN b}
  IN A # {} /\ B # {} /\ 2 * Cardinality(A \cap B) > Cardinality(A \cup B)

PairwiseDiverse(out) ==
  \A i, j \in DOMAIN out : i # j => ~JaccardAboveHalf(out[i], out[j])

\* the entries the greedy walk accepts, each with its own position
selAccepted == Greedy(selScored, selTopK)
selAcceptedInDocOrder ==
  Sents(SortByPos([i \in DOMAIN selAccepted |->
                     [sent |-> selAccepted[i].sent, pos |-> selAccepted[i].idx]]))

\* C1: with more candidates than top_k, the result is the selected sentences
\* ordered by their own original position, and is a subsequence of the input
\* sentence sequence.
C1_DocumentOrder ==
  (selPc = "done" /\ selN > selTopK) =>
     /\ selOut = selAcceptedInDocOrder
     /\ IsSubsequence(selOut, Sents(selDoc))

\* C2 as claimed: the result never has fewer than min(top_k, available)
\* sentences.
C2_AtLeastMin ==
  selPc = "done" => Len(selOut) >= Min(selTopK, selN)

\* C2 as amended: the result has at most top_k sentences, is not empty when
\* there is a candidate, and is shorter than min(top_k, available) only when
\* the walk ran out of candidates: every candidate left out overlaps a
\* returned sentence by more than 0.5.
C2_ShortOnlyWhenExhausted ==
  selPc = "done" =>
     /\ Len(selOut) <= selTopK
     /\ (selN >= 1 => Len(selOut) >= 1)
     /\ (Len(selOut) < Min(selTopK, selN) =>
           \A i \in 1..selN : \E j \in DOMAIN selOut :
              \/ selOut[j] = selScored[i].sent
              \/ JaccardAboveHalf(selScored[i].sent, selOut[j]))

C2_Witness ==
  selPc = "done" /\ selN > selTopK /\ Len(selOut) < selTopK

\* C4 as claimed: every pair of returned sentences has word overlap <= 0.5
\* unless the pool was strictly smaller than top_k.
C4_DiverseFromPoolEqTopK ==
  (selPc = "done" /\ selN >= selTopK) => PairwiseDiverse(selOut)

\* C4 as amended: every pair of returned sentences has word overlap <= 0.5
\* whenever the pool was larger than top_k (a pool of size <= top_k bypasses
\* the filter).
C4_DiverseAboveTopK ==
  (selPc = "done" /\ selN > selTopK) => PairwiseDiverse(selOut)

C4_Witness ==
  /\ selPc = "done" /\ selN > selTopK /\ Len(selOut) >= 2
  /\ \E i, j \in 1..selN :
        i < j /\ JaccardAboveHalf(selScored[i].sent, selScored[j].sent)

\* C5: with at most top_k candidates the result is all candidates, duplicates
\* included, in ascending original position.
C5_AllInDocOrder ==
  (selPc = "done" /\ selN <= selTopK) => selOut = Sents(selDoc)

C5_Witness ==
  /\ selPc = "done" /\ selN <= selTopK /\ selN >= 2
  /\ selScored[1].idx # 0
  /\ \E i, j \in 1..selN :
        i < j /\ JaccardAboveHalf(selScored[i].sent, selScored[j].sent)

(***************************************************************************)
(* Claims about the pipelines behind summarize_text (checked under Spec).  *)
(***************************************************************************)
\* pipeline.process returned a response for r
Answered(r) == pc[r] = "done" /\ resp[r].status = 200

\* C3: a response never lists more than top_k extracted sentences, in any
\* mode.
C3_ExtractedAtMostTopK ==
  \A r \in Req :
     Answered(r) => Len(resp[r].sentences_extracted) <= req[r].top_k

C3_Witness ==
  \E r \in Req :
     /\ Answered(r)
     /\ req[r].mode = "semantic"
     /\ Len(loc[r].candidates) > req[r].top_k
     /\ Len(resp[r].sentences_extracted) = req[r].top_k

\* extract_sentences found no sentence for r
ExtractedNothing(r) ==
  "extract_sentences" \in calls[r] /\ loc[r].sentences = <<>>

\* C6: in every mode, when extraction yields no sentence the request ends at
\* once with the summary "No content to summarize", no extracted sentence and
\* total_sentences 0; the stage log is not empty and holds every stage logged
\* before; no scoring, ranking, re-ranking or generation ran.
C6_EmptyShortCircuit ==
  \A r \in Req :
     ExtractedNothing(r) =>
        /\ Answered(r)
        /\ resp[r].summary = <<"No", " ", "content", " ", "to", " ", "summarize">>
        /\ resp[r].mode = req[r].mode
        /\ resp[r].sentences_extracted = <<>>
        /\ resp[r].total_sentences = 0
        /\ resp[r].pipeline_stages # <<>>
        /\ resp[r].pipeline_stages = stages[r]
        /\ stages[r] = <<"Preprocessing">>
        /\ calls[r] = {"preprocess", "extract_sentences"}
        /\ posts[r] = 0

C6_Witness ==
  \E r \in Req :
     ExtractedNothing(r) /\ req[r].mode = "abstractive" /\ pc[r] = "done"

\* every attempt of generate_summary for r posted and failed
AllAttemptsFailed(r) ==
  /\ llmClient
  /\ pc[r] = "done"
  /\ posts[r] = MaxAttempts
  /\ loc[r].summary # GeneratedText

\* C7: with a client configured and every attempt of the external call
\* failing, the abstractive request is answered normally, its summary the
\* first three selected sentences joined.
C7_FallbackAfterFailures ==
  \A r \in Req :
     AllAttemptsFailed(r) =>
        /\ resp[r].status = 200
        /\ resp[r].summary = JoinSpace(SubSeq(loc[r].final, 1,
                                              Min(3, Len(loc[r].final))))

\* the first three of the sentences, a single space between two of them
FirstThreeJoined(sentences) ==
  CASE Len(sentences) = 0 -> <<>>
    [] Len(sentences) = 1 -> Str(sentences[1])
    [] Len(sentences) = 2 -> Str(sentences[1]) \o <<" ">> \o Str(sentences[2])
    [] OTHER -> Str(sentences[1]) \o <<" ">> \o Str(sentences[2]) \o <<" ">>
                  \o Str(sentences[3])

\* C8: without a client, generate_summary posts nothing, runs once, and
\* returns the first three selected sentences joined by single spaces; the
\* abstractive response carries that text as its summary.
C8_FallbackWithoutClient ==
  \A r \in Req :
     (~llmClient /\ "generate_summary" \in calls[r]) =>
        /\ posts[r] = 0
        /\ loc[r].attempt = 1
        /\ pc[r] \notin {"llm_wait", "llm_backoff"}
        /\ loc[r].summary = FirstThreeJoined(loc[r].final)
        /\ Answered(r) => resp[r].summary = FirstThreeJoined(loc[r].final)

C8_Witness ==
  \E r \in Req :
     /\ ~llmClient
     /\ Answered(r)
     /\ req[r].mode = "abstractive"
     /\ Len(loc[r].final) > 3
     /\ posts[r] = 0

\* rerank_with_embeddings was called for r and raised: it returned no index
RerankRaised(r) ==
  /\ "rerank_with_embeddings" \in calls[r]
  /\ pc[r] = "done"
  /\ loc[r].top_indices = <<>>

\* C9: when rerank_with_embeddings raises in a semantic or abstractive
\* request, the request is answered normally.
C9_RerankFailureTolerated ==
  \A r \in Req : RerankRaised(r) => resp[r].status = 200

(***************************************************************************)
(* Claims about concurrent requests (checked under SpecServe).            *)
(***************************************************************************)
\* an exception left pipeline.process of r
PipelineRaised(r) ==
  "preprocess" \in calls[r] /\ pc[r] = "done" /\ resp[r].detail # ""

\* C10: an exception that leaves the pipeline of one request is answered
\* with HTTP 500; the pipelines map and the LLM client stay as the startup
\* built them, the event loop is free for the other requests, and a request
\* that did not raise is answered 200.
C10_UnexpectedIs500 ==
  \A r \in Req :
     PipelineRaised(r) =>
        /\ resp[r].status = 500
        /\ pipelines = Modes
        /\ running # r
        /\ \A q \in Req \ {r} :
              (pc[q] = "done" /\ ~PipelineRaised(q)) => resp[q].status = 200

(***************************************************************************)
(* Claims about provenance and order in the responses (checked under      *)
(* Spec).                                                                  *)
(***************************************************************************)
\* C12: every provenance entry a pipeline builds has a score in [0,1]: the
\* fused scores of the entries the extractive pipeline is about to build,
\* the relevance scores of the entries the semantic and the abstractive
\* pipeline are about to build, and no request ends with the validation
\* error of SentenceProvenance.
C12_ProvenanceScoresInRange ==
  \A r \in Req :
     req[r].include_provenance =>
        /\ pc[r] = "ext_respond" =>
              \A i \in 1..Min(10, Len(loc[r].combined)) :
                 0 <= loc[r].combined[i].score /\ loc[r].combined[i].score <= 10000
        /\ pc[r] \in {"sem_respond", "abs_respond"} =>
              \A i \in DOMAIN loc[r].top_scores :
                 0 <= loc[r].top_scores[i] /\ loc[r].top_scores[i] <= 1000
        /\ resp[r].detail # "ValidationError"

\* the sentences of the provenance entries of a response
ProvenanceSentences(response) ==
  [i \in DOMAIN response.provenance |-> response.provenance[i].sentence]

\* s and t hold the same elements the same number of times
SameBag(s, t) ==
  /\ Len(s) = Len(t)
  /\ \A x \in {s[i] : i \in DOMAIN s} \cup {t[i] : i \in DOMAIN t} :
        Cardinality({i \in DOMAIN s : s[i] = x})
          = Cardinality({i \in DOMAIN t : t[i] = x})

\* C13: in an extractive response with provenance, the sentences of the
\* provenance entries are exactly the sentences of sentences_extracted.
C13_ProvenanceIsSelection ==
  \A r \in Req :
     (Answered(r) /\ req[r].mode = "extractive" /\ req[r].include_provenance
        /\ req[r].sentences # <<>>) =>
        SameBag(ProvenanceSentences(resp[r]), resp[r].sentences_extracted)

\* C14: in every mode sentences_extracted is in document order: its
\* sentences can be found at ascending positions of the extracted sentences.
C14_ExtractedInDocumentOrder ==
  \A r \in Req :
     Answered(r) => IsSubsequence(resp[r].sentences_extracted, req[r].sentences)

(***************************************************************************)
(* Claims about the stage log (checked under Spec).                        *)
(***************************************************************************)
\* the stage names a pipeline variant logs, in order
StageSequence(mode) ==
  CASE mode = "extractive" ->
         <<"Preprocessing", "Sentence Extraction", "Heuristic Scoring",
           "TextRank", "Final Selection">>
    [] mode = "semantic" ->
         <<"Preprocessing", "Sentence Extraction", "TextRank",
           "DistilBERT Re-ranking">>
    [] OTHER ->
         <<"Preprocessing", "Sentence Extraction", "TextRank",
           "Semantic Re-ranking", "LLM Generation">>

IsPrefix(s, t) == Len(s) <= Len(t) /\ SubSeq(t, 1, Len(s)) = s

\* the stage log of r is a prefix of its variant's sequence, and a response
\* carries the whole sequence
StageLogInOrder ==
  \A r \in Req :
     req[r].sentences # <<>> =>
        /\ IsPrefix(stages[r], StageSequence(req[r].mode))
        /\ Answered(r) => /\ resp[r].pipeline_stages = StageSequence(req[r].mode)
                          /\ stages[r] = resp[r].pipeline_stages

\* a step leaves the stage log of r alone or appends one entry to it
StageLogAppends ==
  \A r \in Req :
     \/ stages'[r] = stages[r]
     \/ \E name \in {"Preprocessing", "Sentence Extraction", "Heuristic Scoring",
                     "TextRank", "Final Selection", "DistilBERT Re-ranking",
                     "Semantic Re-ranking", "LLM Generation"} :
           stages'[r] = Append(stages[r], name)

\* C20: for a request with at least one extracted sentence the stage log
\* grows only by appending, is always a prefix of the fixed sequence of its
\* pipeline variant, and the response carries the full sequence.
C20_StageLogAppendOnly ==
  [](StageLogInOrder) /\ [][StageLogAppends]_vars

C20_Witness ==
  \E r \in Req :
     /\ Answered(r)
     /\ req[r].mode = "abstractive"
     /\ req[r].sentences # <<>>
     /\ Len(resp[r].pipeline_stages) = 5

(***************************************************************************)
(* Claims about a single-sentence input (checked under Spec).              *)
(***************************************************************************)
\* C15: for a single-sentence input rank_sentences returns exactly one
\* entry, that sentence at position 0 with score 1.0, and the extractive
\* selection returns that one sentence, whatever top_k is.
C15_SingleSentence ==
  \A r \in Req :
     (Len(req[r].sentences) = 1 /\ "rank_sentences" \in calls[r]) =>
        /\ req[r].mode = "extractive" =>
              /\ loc[r].ranked = <<[sent |-> req[r].sentences[1],
                                    score |-> 1000, idx |-> 0]>>
              /\ "Final Selection" \in {stages[r][i] : i \in DOMAIN stages[r]} =>
                    loc[r].final = req[r].sentences
        /\ req[r].mode # "extractive" => loc[r].candidates = req[r].sentences

C15_Witness ==
  \E r \in Req :
     /\ Len(req[r].sentences) = 1
     /\ req[r].mode = "extractive"
     /\ req[r].top_k > 1
     /\ Answered(r)
     /\ resp[r].sentences_extracted = req[r].sentences

(***************************************************************************)
(* Claims about request validation (checked under Spec).                   *)
(***************************************************************************)
\* the request is outside the schema: blank text, text shorter than 10 or
\* longer than 10000 characters, top_k outside 1..10, or an unknown mode
OutsideSchema(q) ==
  \/ q.text_blank
  \/ q.text_chars < 10 \/ q.text_chars > 10000
  \/ q.top_k < 1 \/ q.top_k > 10
  \/ q.mode \notin {"extractive", "semantic", "abstractive"}

\* C11: a request outside the schema is rejected with a validation error
\* (HTTP 422) before any pipeline stage runs and is not retried: no stage is
\* logged, no service is called, nothing is posted; a request inside the
\* schema is not rejected this way.
C11_InvalidRejected ==
  \A r \in Req :
     /\ OutsideSchema(req[r]) =>
           /\ pc[r] \in {"absent", "new", "done"}
           /\ pc[r] = "done" => (resp[r].status = 422 /\ resp[r].summary = <<>>)
           /\ stages[r] = <<>>
           /\ calls[r] = {}
           /\ posts[r] = 0
     /\ (pc[r] # "absent" /\ ~OutsideSchema(req[r])) => resp[r].status # 422

C11_Witness ==
  \E r \in Req :
     /\ pc[r] = "done"
     /\ resp[r].status = 422
     /\ req[r].text_blank
     /\ req[r].text_chars >= 10
     /\ pipelines # {}

(***************************************************************************)
(* Claims about the services shared by concurrent requests (checked under  *)
(* SpecServe).                                                             *)
(***************************************************************************)
\* the model handle is there exactly when one load succeeded
LoadedOnce == loads <= 1 /\ (model = "loaded" <=> loads = 1)

\* a step never replaces or reloads a model that is loaded
ModelKept == model = "loaded" => (model' = "loaded" /\ loads' = loads)

\* C17: with concurrent callers the embedding model is loaded successfully at
\* most once, and once it is loaded no caller replaces it.
C17_ModelLoadedOnce == [](LoadedOnce) /\ [][ModelKept]_vars

C17_Witness ==
  /\ loads = 1
  /\ \A r \in Req :
        /\ "rerank_with_embeddings" \in calls[r]
        /\ loc[r].top_indices # <<>>
        /\ pc[r] = "done"

\* the sentences_extracted the extractive pipeline can return for q alone
ExtractiveAlone(q) ==
  {SelectDiverse(CombineScores(HeuristicScores(q.sentences),
                               RankSentences(q.sentences, q.top_k * 2, scores)),
                 q.top_k) :
     scores \in PageRankScores(Len(q.sentences))}

\* the sentences_extracted the re-ranking pipelines can return for q alone,
\* from the candidate_k best-ranked sentences
RerankedAlone(q, candidate_k) ==
  UNION {
    LET candidates == Sents(RankSentences(q.sentences, candidate_k, scores))
        similarity == [i \in DOMAIN candidates |-> rel[candidates[i]]]
    IN {[i \in DOMAIN top |-> candidates[top[i] + 1]] :
          top \in TopKResults(similarity, Min(q.top_k, Len(candidates)))}
    : scores \in PageRankScores(Len(q.sentences)), rel \in Similarities}

SentencesAlone(q) ==
  CASE q.mode = "extractive" -> ExtractiveAlone(q)
    [] q.mode = "semantic" ->
         RerankedAlone(q, Min(q.top_k * 3, Len(q.sentences)))
    [] OTHER -> RerankedAlone(q, q.top_k * 2)

\* C18: whatever the interleaving of the requests at their awaits, a request
\* reads the TF-IDF vectorizer only as fit to its own sentences, and its
\* response (extracted sentences, stage log, sentence count) is one it gets
\* when it runs alone.
C18_RequestsIsolated ==
  \A r \in Req :
     /\ ("rank_sentences" \in calls[r] /\ Len(req[r].sentences) >= 2) =>
           loc[r].vocabulary = Vocabulary(req[r].sentences)
     /\ (Answered(r) /\ req[r].sentences = <<>>) =>
           resp[r] = EmptyResponse(req[r].mode, <<"Preprocessing">>)
     /\ (Answered(r) /\ req[r].sentences # <<>>) =>
           /\ resp[r].sentences_extracted \in SentencesAlone(req[r])
           /\ resp[r].pipeline_stages = StageSequence(req[r].mode)
           /\ resp[r].total_sentences = Len(req[r].sentences)
           /\ resp[r].mode = req[r].mode

C18_Witness ==
  \E r, q \in Req :
     /\ Answered(r) /\ Answered(q)
     /\ req[r].mode = "abstractive" /\ posts[r] >= 1
     /\ "rank_sentences" \in calls[r] /\ "rank_sentences" \in calls[q]
     /\ loc[r].vocabulary # loc[q].vocabulary
     /\ loc[r].vocabulary # {} /\ loc[q].vocabulary # {}
     /\ vectorizer = loc[q].vocabulary

(***************************************************************************)
(* rank_with_mmr.                                                          *)
(***************************************************************************)
\* out takes its entries from strictly ascending positions of sentences
FromAscendingPositions(out, sentences) ==
  \E f \in [DOMAIN out -> DOMAIN sentences] :
     /\ \A i, j \in DOMAIN out : i < j => f[i] < f[j]
     /\ \A i \in DOMAIN out : out[i] = sentences[f[i]]

\* C16: for every non-empty sentence list and every top_k of at least one,
\* rank_with_mmr returns exactly min(top_k, n) sentences, taken from
\* pairwise distinct positions of the input in ascending order of position,
\* whether it ran the selection loop, returned early because n <= top_k, or
\* fell back after an exception.
C16_MmrCountAndOrder ==
  (mmrPc = "done" /\ mmrArgs.sentences # <<>>)
    => /\ Len(mmrOut) = Min(mmrArgs.top_k, Len(mmrArgs.sentences))
       /\ FromAscendingPositions(mmrOut, mmrArgs.sentences)

\* the loop ran, picked a later sentence before an earlier different one,
\* and the result lists them by position
C16_Witness ==
  /\ mmrPc = "done"
  /\ ~mmrArgs.raises
  /\ Len(mmrArgs.sentences) > mmrArgs.top_k
  /\ mmrArgs.top_k >= 2
  /\ LET picked == MmrSelected(mmrArgs.relevance, mmrArgs.similarity,
                               Len(mmrArgs.sentences), mmrArgs.top_k)
     IN /\ picked[1] > picked[2]
        /\ mmrArgs.sentences[picked[1]] # mmrArgs.sentences[picked[2]]
  /\ Len(mmrOut) = mmrArgs.top_k

(***************************************************************************)
(* preprocess.                                                             *)
(***************************************************************************)
\* 'resolution' in key.lower()
KeyHasResolution(key) ==
  \E i \in DOMAIN key : Lower(key[i]) \in {"resolution", "resolution:"}

\* a line of the text starts with the header "Resolution:" and goes on
StartsResolutionSection(lines) ==
  \E i \in DOMAIN lines : Len(lines[i]) > 1 /\ lines[i][1] = "Resolution:"

\* C19: when a line of the text starts with the known section header
\* "Resolution:", the sections preprocess returns have a key containing
\* "resolution", not only "body".
C19_ResolutionSectionFound ==
  (prePc = "done" /\ StartsResolutionSection(preText))
    => \E key \in DOMAIN preSections : KeyHasResolution(key)

(***************************************************************************)
(* rank_sentences and _build_similarity_matrix.                            *)
(***************************************************************************)
\* the top_k rank_sentences works with
RankTopK == IF rkArgs.top_k_none THEN TEXTRANK_TOP_K ELSE rkArgs.top_k

\* every ranked entry is a sentence of the input at its own position, with
\* a score of at least zero, and no position occurs twice
RankedEntriesSound ==
  /\ \A i \in DOMAIN rkOut.ranked :
        /\ rkOut.ranked[i].idx \in 0..(Len(rkArgs.sentences) - 1)
        /\ rkOut.ranked[i].sent = rkArgs.sentences[rkOut.ranked[i].idx + 1]
        /\ rkOut.ranked[i].score >= 0
  /\ \A i, j \in DOMAIN rkOut.ranked :
        i # j => rkOut.ranked[i].idx # rkOut.ranked[j].idx

C25_DescendingTiesByPosition ==
  rkPc = "done"
    => \A i, j \in DOMAIN rkOut.ranked :
          i < j => \/ rkOut.ranked[i].score > rkOut.ranked[j].score
                   \/ /\ rkOut.ranked[i].score = rkOut.ranked[j].score
                      /\ rkOut.ranked[i].idx < rkOut.ranked[j].idx

\* nx.pagerank returned, and two returned entries have the same score while
\* a third has another
C25_Witness ==
  /\ rkPc = "done"
  /\ ~rkArgs.pagerank_raises
  /\ \E i, j, k \in DOMAIN rkOut.ranked :
        /\ i < j
        /\ rkOut.ranked[i].score = rkOut.ranked[j].score
        /\ rkOut.ranked[k].score # rkOut.ranked[i].score

\* C26: when nx.pagerank raises, rank_sentences does not raise; every node
\* gets the score 1/n and the ranking is the sentences in document order,
\* cut to top_k.
C26_UniformFallback ==
  (rkPc = "done" /\ rkArgs.pagerank_raises)
    => /\ ~rkOut.raised
       /\ rkOut.ranked =
            [i \in 1..Min(RankTopK, Len(rkArgs.sentences)) |->
               [sent |-> rkArgs.sentences[i],
                score |-> 1000 \div Len(rkArgs.sentences),
                idx |-> i - 1]]

\* nx.pagerank raised on several sentences and the ranking was cut
C26_Witness ==
  /\ rkPc = "done"
  /\ rkArgs.pagerank_raises
  /\ Len(rkArgs.sentences) >= 2
  /\ RankTopK < Len(rkArgs.sentences)
  /\ Len(rkOut.ranked) = RankTopK

\* C27: for every n >= 1 the matrix _build_similarity_matrix returns is
\* n x n, symmetric, and zero in every diagonal cell: on the normal path, on
\* the fallback after a vectorizer failure, and for a single sentence.
C27_ZeroDiagonal ==
  rkPc = "done"
    => LET n == Len(rkArgs.sentences)
           matrix == rkOut.matrix
       IN /\ DOMAIN matrix = 1..n
          /\ \A i \in 1..n : DOMAIN matrix[i] = 1..n
          /\ \A i, j \in 1..n : matrix[i][j] = matrix[j][i]
          /\ \A i \in 1..n : matrix[i][i] = 0

(***************************************************************************)
(* Score fusion and selection of the extractive pipeline.                  *)
(***************************************************************************)
SentenceSet(list) == {list[i] : i \in DOMAIN list}

\* C21: for a fixed text, the sentences the extractive pipeline selects
\* with top_k are among those it selects with top_k + 1 (the ranker being
\* asked for 2 * top_k entries each time).
C21_SelectionMonotone ==
  fuPc = "done"
    => SentenceSet(fuOut.final)
         \subseteq SentenceSet(ExtractiveStages(fuArgs.sentences, fuArgs.top_k + 1,
                                                fuArgs.scores).final)

\* there is exactly one fused entry per position, the scores descending
FusedListShape ==
  /\ Len(fuOut.combined) = Len(fuArgs.sentences)
  /\ \A p \in 0..(Len(fuArgs.sentences) - 1) :
        \E i \in DOMAIN fuOut.combined : fuOut.combined[i].idx = p
  /\ \A i, j \in DOMAIN fuOut.combined :
        i < j => fuOut.combined[i].score >= fuOut.combined[j].score

\* the heuristic score of the sentence at position p
HeuristicAt(p) ==
  HeuristicScore(fuArgs.sentences[p + 1], p, Len(fuArgs.sentences))

\* C22: the fused score of the sentence at every position i is
\* 0.6 * (PageRank score of node i) + 0.4 * (heuristic score of i / 10),
\* also for the sentences the ranker left out of its top 2 * top_k, and the
\* fused list is sorted by fused score descending.
C22_FusedIsWeightedSum ==
  fuPc = "done"
    => /\ FusedListShape
       /\ \A i \in DOMAIN fuOut.combined :
             fuOut.combined[i].score =
               6 * fuArgs.scores[fuOut.combined[i].idx + 1]
               + 40 * HeuristicAt(fuOut.combined[i].idx)

\* the score rank_sentences returned for position p, 0.0 when it returned
\* none
RankedScoreAt(p) ==
  LET hits == {i \in DOMAIN fuOut.ranked : fuOut.ranked[i].idx = p}
  IN IF hits = {} THEN 0 ELSE fuOut.ranked[CHOOSE i \in hits : TRUE].score

\* C23: a sentence whose text occurs at another position too is fused with
\* the ranker score of its own position, not with that of the other
\* occurrence.
C23_DuplicatesKeyedByPosition ==
  fuPc = "done"
    => \A i \in DOMAIN fuOut.combined :
          (\E q \in DOMAIN fuArgs.sentences :
              /\ q - 1 # fuOut.combined[i].idx
              /\ fuArgs.sentences[q] = fuOut.combined[i].sent)
            => fuOut.combined[i].score =
                 6 * RankedScoreAt(fuOut.combined[i].idx)
                 + 40 * HeuristicAt(fuOut.combined[i].idx)

(***************************************************************************)
(* Retries, provenance positions and the missing pipeline.                 *)
(***************************************************************************)
AttemptsBounded ==
  \A r \in Req : posts[r] <= MaxAttempts /\ loc[r].attempt <= MaxAttempts

\* a post is one more attempt; every attempt after the first follows a
\* backoff sleep; after the last failed attempt the invocation is over
AttemptStep ==
  \A r \in Req :
     /\ posts'[r] # posts[r] =>
          /\ posts'[r] = posts[r] + 1
          /\ posts[r] > 0 => pc[r] = "llm_backoff"
     /\ (pc[r] = "llm_wait" /\ posts[r] = MaxAttempts /\ pc'[r] # pc[r]) =>
          pc'[r] \in {"abs_respond", "done"}

\* C28: one invocation of generate_summary makes at most 3 attempts of the
\* external call, sleeps between a failed attempt and the next, and stops
\* after the third.
C28_AtMostThreeAttempts == [](AttemptsBounded) /\ [][AttemptStep]_vars

\* three attempts were posted, all failed, and the invocation ended
C28_Witness ==
  \E r \in Req :
     /\ llmClient
     /\ pc[r] = "done"
     /\ posts[r] = MaxAttempts
     /\ resp[r].detail = "RetryError"

\* C29: in every mode the position of a provenance entry is the zero-based
\* position of its sentence in the sentences extracted from the document.
C29_ProvenancePositionInDocument ==
  \A r \in Req :
     (Answered(r) /\ resp[r].has_provenance) =>
        \A i \in DOMAIN resp[r].provenance :
           /\ resp[r].provenance[i].position \in 0..(Len(loc[r].sentences) - 1)
           /\ loc[r].sentences[resp[r].provenance[i].position + 1]
                = resp[r].provenance[i].sentence

\* summarize_text found no pipeline for the mode of r
NoPipelineFound(r) == pc[r] = "done" /\ resp[r].detail = "HTTPException"

\* C30: when no pipeline is registered for the requested mode,
\* summarize_text answers 400 and not 500.
C30_MissingPipelineIs400 ==
  \A r \in Req : NoPipelineFound(r) => resp[r].status = 400

====
